---- MODULE Spec2Model ----
(***************************************************************************)
(* A model of scripts/dont_panic.py: the tileset loader (TileDataLoader),  *)
(* the glyph grid builder (build_grid, pick_item, expand_pattern) and the  *)
(* per-cell compositing of render_dont_panic.                              *)
(***************************************************************************)
EXTENDS Integers, Sequences, FiniteSets, TLC

(***************************************************************************)
(* JSON values.  Python decides by isinstance(); the model tags each value *)
(* with its type.  A dict is a record whose DOMAIN is the set of its keys, *)
(* so `"k" \in DOMAIN d` is Python's `'k' in d`.                           *)
(***************************************************************************)
JInt(n) == [t |-> "int", v |-> n]
JStr(s) == [t |-> "str", v |-> s]
JList(s) == [t |-> "list", v |-> s]
JDict(d) == [t |-> "dict", v |-> d]
JNone == [t |-> "None"]

\* dict.get(key, default)
Get(d, key, default) == IF key \in DOMAIN d THEN d[key] ELSE default

\* the element of a one-element set: Only({ e(x) : x \in {v} }) is e(v) with
\* v computed once
Only(S) == CHOOSE x \in S : TRUE

(***************************************************************************)
(* Bounds of the model.                                                    *)
(***************************************************************************)
\* longest chunk list of a manifest
MaxChunks == 2
\* find_tile / get_tile_image calls made on one loader
MaxCalls == 4

(***************************************************************************)
(* The tileset directory: the spritesheets that exist, with their pixel    *)
(* sizes.  "missing.png" is referenced by a chunk but is not on disk.      *)
(***************************************************************************)
Disk ==
  [ normal_png |-> [width |-> 64, height |-> 32],
    large_png  |-> [width |-> 48, height |-> 80] ]

\* Path.exists() of tiles_base_path / file
exists(file) == file \in DOMAIN Disk

\* Image.open(path).convert('RGBA')
ImageOpen(file) ==
  [kind |-> "decoded", path |-> file,
   width |-> Disk[file].width, height |-> Disk[file].height]

\* side of the square placeholder bitmap of get_tile_image
PLACEHOLDER_SIZE == 32

\* Image.new('RGBA', (32, 32), (255, 0, 255, 255))
Placeholder ==
  [kind |-> "placeholder", path |-> "", width |-> PLACEHOLDER_SIZE,
   height |-> PLACEHOLDER_SIZE]

(***************************************************************************)
(* Manifests.  tile_info[0] gives the global sprite size; 'tiles-new' is   *)
(* a list of chunks taken from ChunkPool.                                  *)
(***************************************************************************)
TileSizes == {16, 32}

Ids == {"mon_zombie", "t_grass", "towel", "guidebook"}

ChunkPool ==
  { \* explicit 2x2 grid; "mon_zombie" listed by two entries of the chunk
    [ file |-> "normal_png", nx |-> 2, ny |-> 2,
      tiles |-> << [id |-> JStr("mon_zombie"), fg |-> JInt(1)],
                   [id |-> JList(<<"t_grass", "mon_zombie">>),
                    fg |-> JList(<<JInt(5), JInt(0)>>), bg |-> JInt(0)] >> ],
    \* a chunk that declares no file and no grid: one 1x1 placeholder tile
    [ tiles |-> << [id |-> JStr("towel"), fg |-> JInt(4)] >> ],
    \* a chunk whose file is not on disk; an entry without fg
    [ file |-> "missing_png",
      tiles |-> << [id |-> JStr("t_grass"), fg |-> JDict([sprite |-> JInt(0)])],
                   [id |-> JStr("towel"), bg |-> JInt(2)] >> ],
    \* grid computed from the image with the chunk's own sprite size;
    \* first entry for "mon_zombie" has an empty fg list
    [ file |-> "large_png", sprite_width |-> 24, sprite_height |-> 40,
      sprite_offset_x |-> 4, sprite_offset_y |-> 8,
      tiles |-> << [id |-> JStr("mon_zombie"), fg |-> JList(<< >>)],
                   [id |-> JStr("towel"), fg |-> JInt(3), bg |-> JInt(6)] >> ],
    \* explicit grid with zero tiles and no 'tiles' key
    [ file |-> "normal_png", nx |-> 0, ny |-> 3 ],
    \* grid computed from the image with the global sprite size
    [ file |-> "large_png",
      tiles |-> << [id |-> JStr("t_grass"), fg |-> JDict([weight |-> JInt(1)])],
                   [id |-> JList(<<"towel">>), fg |-> JInt(9)] >> ] }

RECURSIVE SeqsUpTo(_, _)
SeqsUpTo(S, n) ==
  IF n = 0 THEN { << >> }
  ELSE LET shorter == SeqsUpTo(S, n - 1)
       IN  shorter \cup { Append(s, x) : s \in shorter, x \in S }

Manifests ==
  { [tile_info |-> << [width |-> w, height |-> h] >>, tiles_new |-> cs] :
      w \in TileSizes, h \in TileSizes, cs \in SeqsUpTo(ChunkPool, MaxChunks) }

VARIABLES
  tileset_data,   \* TileDataLoader.tileset_data: the parsed manifest
  tile_width,     \* TileDataLoader.tile_width
  tile_height,    \* TileDataLoader.tile_height
  image_cache,    \* TileDataLoader.image_cache: file -> decoded image
  ranges,         \* the range table built by the last find_tile call
  item_id,        \* the argument of the last find_tile call
  result,         \* what the last find_tile call returned or raised
  matched,        \* <<chunk index, entry index>> the last find_tile resolved through
  tile,           \* what the last get_tile_image call returned
  builds,         \* number of times find_tile has built the range table
  decodes,        \* file -> number of bitmaps stored in image_cache for it
  first,          \* the first find_tile call of this loader: its id and result
  calls,          \* number of loader calls made so far
  LETTER_SPACING,               \* module constant: blank columns between letters
  LETTER_THICKNESS_HORIZONTAL,  \* module constant
  LETTER_THICKNESS_VERTICAL,    \* module constant
  rng,            \* the state of the module-level generator of `random`
  PICK_CACHE,     \* _PICK_CACHE
  seed,           \* the argument of the last random.seed call, 0 before any
  variations,     \* number of random.seed calls made so far
  words,          \* the texts given to build_grid since the last random.seed
  grids,          \* the grids build_grid returned for them
  cell,           \* the cell the loop of render_dont_panic handled last
  layers,         \* what was drawn for that cell, in order
  cells_done,     \* number of cells the loop has handled
  img_width,      \* render_dont_panic: width of the canvas
  img_height,     \* render_dont_panic: height of the canvas
  y_offset,       \* render_dont_panic: top edge of the next row
  boxes,          \* the nominal boxes of the cells of the row handled last
  pc,             \* where main of dont_panic.py is
  present,        \* the candidate manifest paths that exist under the root
  content,        \* what the manifest file main finds holds
  error,          \* "" or what ended main: an exception or sys.exit(1)
  tmp_dir,        \* whether main has created tmp/
  saved,          \* the images saved so far: 0 for the index, i for variation i
  cursor,         \* << grid, row >> render_dont_panic handles next
  data_file,      \* _test/all.json, the game data gen-unifont.py reads
  chars_file,     \* scripts/unifont-chars.txt: NoFile or its characters
  input_font,     \* .cache/fonts/unifont-latin-400-normal.woff2
  output_font,    \* src/assets/unifont-subset.woff2: NoFile or what made it
  mode,           \* the last gen-unifont run: "" | "generate" | "verify"
  exit_code,      \* the exit code of that run
  font_runs       \* number of gen-unifont runs and data edits so far

loader_vars == << tileset_data, tile_width, tile_height, image_cache, ranges, item_id,
                  result, matched, tile, builds, decodes, first, calls >>

config_vars == << LETTER_SPACING, LETTER_THICKNESS_HORIZONTAL, LETTER_THICKNESS_VERTICAL >>

grid_vars == << rng, PICK_CACHE, seed, variations, words, grids >>

layout_vars == << img_width, img_height, y_offset, boxes >>

render_vars == << cell, layers, cells_done, layout_vars >>

main_vars == << pc, present, content, error, tmp_dir, saved, cursor >>

font_vars == << data_file, chars_file, input_font, output_font, mode, exit_code,
                font_runs >>

vars == << loader_vars, config_vars, grid_vars, render_vars, main_vars, font_vars >>

\* _get_chunk_dimensions reading the image cache before it asks whether the
\* file exists, so that a cached placeholder decides the grid
get_chunk_dimensions_cache_first(chunk, cache) ==
  IF "nx" \in DOMAIN chunk /\ "ny" \in DOMAIN chunk
  THEN [nx |-> chunk.nx, ny |-> chunk.ny, cache |-> cache, opened |-> << >>]
  ELSE IF "file" \notin DOMAIN chunk
  THEN [nx |-> 1, ny |-> 1, cache |-> cache, opened |-> << >>]
  ELSE IF chunk.file \notin DOMAIN cache /\ ~exists(chunk.file)
  THEN [nx |-> 1, ny |-> 1, cache |-> cache, opened |-> << >>]
  ELSE LET miss == chunk.file \notin DOMAIN cache
           cache2 == IF miss THEN cache @@ (chunk.file :> ImageOpen(chunk.file))
                     ELSE cache
           img == cache2[chunk.file]
           tw == Get(chunk, "sprite_width", tile_width)
           th == Get(chunk, "sprite_height", tile_height)
       IN  [nx |-> img.width \div tw, ny |-> img.height \div th,
            cache |-> cache2,
            opened |-> IF miss THEN << chunk.file >> ELSE << >>]

\* _get_chunk_dimensions dividing by the global tile size for every chunk
get_chunk_dimensions_global_size(chunk, cache) ==
  IF "nx" \in DOMAIN chunk /\ "ny" \in DOMAIN chunk
  THEN [nx |-> chunk.nx, ny |-> chunk.ny, cache |-> cache, opened |-> << >>]
  ELSE IF "file" \notin DOMAIN chunk
  THEN [nx |-> 1, ny |-> 1, cache |-> cache, opened |-> << >>]
  ELSE IF ~exists(chunk.file)
  THEN [nx |-> 1, ny |-> 1, cache |-> cache, opened |-> << >>]
  ELSE LET miss == chunk.file \notin DOMAIN cache
           cache2 == IF miss THEN cache @@ (chunk.file :> ImageOpen(chunk.file))
                     ELSE cache
           img == cache2[chunk.file]
       IN  [nx |-> img.width \div tile_width, ny |-> img.height \div tile_height,
            cache |-> cache2,
            opened |-> IF miss THEN << chunk.file >> ELSE << >>]

(***************************************************************************)
(* TileDataLoader._get_chunk_dimensions: (nx, ny) of a chunk, together     *)
(* with the image cache it leaves behind.                                  *)
(***************************************************************************)
get_chunk_dimensions(chunk, cache) ==
  IF "nx" \in DOMAIN chunk /\ "ny" \in DOMAIN chunk
  THEN [nx |-> chunk.nx, ny |-> chunk.ny, cache |-> cache, opened |-> << >>]
  ELSE IF "file" \notin DOMAIN chunk
  THEN [nx |-> 1, ny |-> 1, cache |-> cache, opened |-> << >>]
  ELSE IF ~exists(chunk.file)
  THEN [nx |-> 1, ny |-> 1, cache |-> cache, opened |-> << >>]
  ELSE LET miss == chunk.file \notin DOMAIN cache
           cache2 == IF miss THEN cache @@ (chunk.file :> ImageOpen(chunk.file))
                     ELSE cache
           img == cache2[chunk.file]
           tw == Get(chunk, "sprite_width", tile_width)
           th == Get(chunk, "sprite_height", tile_height)
       IN  [nx |-> img.width \div tw, ny |-> img.height \div th,
            cache |-> cache2,
            opened |-> IF miss THEN << chunk.file >> ELSE << >>]

\* the range loop with an inclusive upper end: 'to' is the last index of the
\* chunk, not the index after it
RECURSIVE build_ranges_inclusive(_, _, _, _, _, _)
build_ranges_inclusive(chunks, i, offset, acc, cache, opened) ==
  IF i > Len(chunks)
  THEN [ranges |-> acc, cache |-> cache, opened |-> opened]
  ELSE Only({ build_ranges_inclusive(chunks, i + 1, offset + d.nx * d.ny,
                        Append(acc, [from |-> offset, to |-> offset + d.nx * d.ny - 1,
                                     chunk |-> chunks[i], nx |-> d.nx, ny |-> d.ny]),
                        d.cache, opened \o d.opened) :
                d \in { get_chunk_dimensions(chunks[i], cache) } })

(***************************************************************************)
(* find_tile, lines 190-202: the loop that builds the range table, from    *)
(* chunk i on.                                                             *)
(***************************************************************************)
RECURSIVE build_ranges(_, _, _, _, _, _)
build_ranges(chunks, i, offset, acc, cache, opened) ==
  IF i > Len(chunks)
  THEN [ranges |-> acc, cache |-> cache, opened |-> opened]
  ELSE Only({ build_ranges(chunks, i + 1, offset + d.nx * d.ny,
                        Append(acc, [from |-> offset, to |-> offset + d.nx * d.ny,
                                     chunk |-> chunks[i], nx |-> d.nx, ny |-> d.ny]),
                        d.cache, opened \o d.opened) :
                d \in { get_chunk_dimensions(chunks[i], cache) } })

\* find_tile.find_range: index of the first range holding tile_id, 0 for None
RECURSIVE find_range(_, _, _)
find_range(rs, tile_id, i) ==
  IF i > Len(rs) THEN 0
  ELSE IF rs[i].from <= tile_id /\ tile_id < rs[i].to THEN i
  ELSE find_range(rs, tile_id, i + 1)

PosNone == [kind |-> "None"]
Raise(exc) == [kind |-> "raise", exc |-> exc]

\* a column computed by dividing instead of taking the remainder
tile_tx_divided(offset_in_file, nx) == offset_in_file \div nx

\* line 222: the tile's column in its chunk
tile_tx(offset_in_file, nx) == offset_in_file % nx

\* a row computed by rounding the quotient up
tile_ty_rounded_up(offset_in_file, nx) == (offset_in_file + nx - 1) \div nx

\* line 223: the tile's row in its chunk
tile_ty(offset_in_file, nx) == offset_in_file \div nx

\* find_tile.tile_info_for_id; tile_id is the normalised fg or bg reference
tile_info_for_id(rs, tile_id) ==
  IF tile_id.t = "None" THEN PosNone
  ELSE IF tile_id.t # "int"
  THEN \* find_range compares r['from'] <= tile_id for the first range
       IF Len(rs) = 0 THEN PosNone ELSE Raise("TypeError")
  ELSE LET k == find_range(rs, tile_id.v, 1)
       IN  IF k = 0 THEN PosNone
           ELSE LET r == rs[k]
                    offset_in_file == tile_id.v - r.from
                IN  IF "file" \notin DOMAIN r.chunk THEN Raise("KeyError")
                    ELSE [kind |-> "TilePosition",
                          file |-> r.chunk.file,
                          width |-> Get(r.chunk, "sprite_width", tile_width),
                          height |-> Get(r.chunk, "sprite_height", tile_height),
                          offx |-> Get(r.chunk, "sprite_offset_x", 0),
                          offy |-> Get(r.chunk, "sprite_offset_y", 0),
                          tx |-> tile_tx(offset_in_file, r.nx),
                          ty |-> tile_ty(offset_in_file, r.nx)]

\* lines 238-240: the ids of a tile entry as a list
tile_ids_of(tile_entry) ==
  LET ids == Get(tile_entry, "id", JList(<< >>))
  IN  IF ids.t = "list" THEN ids.v ELSE << ids.v >>

InSeq(x, s) == \E k \in 1..Len(s) : s[k] = x

\* a normalisation that takes the last element of a list
normalise_last(tile_entry, key) ==
  LET ref == Get(tile_entry, key, JNone)
      unlisted == IF ref.t = "list"
                  THEN (IF Len(ref.v) > 0 THEN ref.v[Len(ref.v)] ELSE JNone)
                  ELSE ref
  IN  IF unlisted.t = "dict" THEN Get(unlisted.v, "sprite", JNone) ELSE unlisted

\* lines 243-256: an fg or bg reference normalised
normalise(tile_entry, key) ==
  LET ref == Get(tile_entry, key, JNone)
      unlisted == IF ref.t = "list"
                  THEN (IF Len(ref.v) > 0 THEN ref.v[1] ELSE JNone)
                  ELSE ref
  IN  IF unlisted.t = "dict" THEN Get(unlisted.v, "sprite", JNone) ELSE unlisted

\* a search that passes over a matching entry whose fg is empty
RECURSIVE search_resolving(_, _, _, _)
search_resolving(chunks, id, c, e) ==
  IF c > Len(chunks) THEN << >>
  ELSE LET tiles == Get(chunks[c], "tiles", << >>)
       IN  IF e > Len(tiles) THEN search_resolving(chunks, id, c + 1, 1)
           ELSE IF /\ InSeq(id, tile_ids_of(tiles[e]))
                   /\ normalise(tiles[e], "fg") # JNone
                THEN << c, e >>
           ELSE search_resolving(chunks, id, c, e + 1)

\* lines 236-242: the first entry, in manifest order from (c, e), that lists id
RECURSIVE search(_, _, _, _)
search(chunks, id, c, e) ==
  IF c > Len(chunks) THEN << >>
  ELSE LET tiles == Get(chunks[c], "tiles", << >>)
       IN  IF e > Len(tiles) THEN search(chunks, id, c + 1, 1)
           ELSE IF InSeq(id, tile_ids_of(tiles[e])) THEN << c, e >>
           ELSE search(chunks, id, c, e + 1)

\* lines 258-261: TileInfo(fg=..., bg=...), fg evaluated first
tile_info_of(rs, tile_entry) ==
  LET fg == tile_info_for_id(rs, normalise(tile_entry, "fg"))
      bg == tile_info_for_id(rs, normalise(tile_entry, "bg"))
  IN  IF fg.kind = "raise" THEN fg
      ELSE IF bg.kind = "raise" THEN bg
      ELSE [kind |-> "TileInfo", fg |-> fg, bg |-> bg]

(***************************************************************************)
(* TileDataLoader.find_tile as a whole: the table, the cache it leaves,    *)
(* the entry it resolved through and what it returns or raises.            *)
(***************************************************************************)
find_tile(data, cache, id) ==
  IF "tiles_new" \notin DOMAIN data
  THEN [ranges |-> << >>, cache |-> cache, opened |-> << >>, built |-> FALSE,
        matched |-> << >>, result |-> Raise("KeyError")]
  ELSE Only({ [ranges |-> b.ranges, cache |-> b.cache, opened |-> b.opened,
               built |-> TRUE, matched |-> m,
               result |-> IF m = << >> THEN [kind |-> "None"]
                          ELSE tile_info_of(b.ranges,
                                            data.tiles_new[m[1]].tiles[m[2]])] :
                b \in { build_ranges(data.tiles_new, 1, 0, << >>, cache, << >>) },
                m \in { search(data.tiles_new, id, 1, 1) } })

RECURSIVE count_opened(_, _)
count_opened(d, opened) ==
  IF opened = << >> THEN d
  ELSE count_opened([d EXCEPT ![Head(opened)] = @ + 1], Tail(opened))

Files == {"normal_png", "large_png", "missing_png"}

NoCall == [kind |-> "nothing"]

(***************************************************************************)
(* The grid builder: the module constants, the catalogs, the glyph table,  *)
(* the `random` generator, pick_item, expand_pattern and build_grid.       *)
(***************************************************************************)
RANDOM_ROTATION_MAX == 15
RANDOM_OFFSET_X == 4
RANDOM_OFFSET_Y == 2
NUM_VARIATIONS == 5

ITEMS ==
  << << "mon_zombie_gasbag_fungus", 1 >>,
     << "mon_creeper_hub", 1 >>,
     << "mon_zombie_gasbag", 2 >>,
     << "mon_fungaloid", 1 >>,
     << "mon_human_snail", 0 >>,
     << "mon_molebot", 0 >>,
     << "mon_gator", 2 >>,
     << "mon_zombie_grappler", 2 >>,
     << "mon_zombie", 10 >>,
     << "mon_zombie_fat", 8 >>,
     << "mon_zombie_tough", 8 >>,
     << "mon_zombie_runner", 5 >>,
     << "mon_zombie_acidic", 3 >>,
     << "mon_zombie_ears", 3 >>,
     << "mon_zombie_soldier", 5 >>,
     << "mon_zombie_spitter", 3 >>,
     << "mon_zombie_prisoner", 2 >>,
     << "mon_zombie_survivor", 2 >>,
     << "mon_zombie_soldier_acid_1", 2 >>,
     << "mon_zombie_soldier_acid_2", 2 >>,
     << "mon_skeleton_brute", 1 >>,
     << "jar_3l_glass", 1 >>,
     << "bio_ads", 1 >>,
     << "heavy_plus_battery_cell", 0 >>,
     << "tuba", 0 >>,
     << "american_180", 0 >>,
     << "voltmeter", 0 >>,
     << "towel", 2 >>,
     << "helmet_motor", 0 >>,
     << "guidebook", 1 >> >>

TERRAINS ==
  << "t_sidewalk",
     "t_concrete",
     "t_sidewalk_bg_dp",
     "t_clay",
     "t_railroad_rubble",
     "t_rock_green",
     "t_grass_long",
     "t_moss",
     "t_moss",
     "t_dirtfloor_no_roof",
     "t_grass",
     "t_floor_resin" >>

LETTERS ==
    "D"  :> << <<"X","X","X","X"," ">>,
               <<"X"," "," "," ","X">>,
               <<"X"," "," "," ","X">>,
               <<"X"," "," "," ","X">>,
               <<"X"," "," "," ","X">>,
               <<"X"," "," "," ","X">>,
               <<"X","X","X","X"," ">> >> @@
    "O"  :> << <<" ","X","X","X"," ">>,
               <<"X"," "," "," ","X">>,
               <<"X"," "," "," ","X">>,
               <<"X"," "," "," ","X">>,
               <<"X"," "," "," ","X">>,
               <<"X"," "," "," ","X">>,
               <<" ","X","X","X"," ">> >> @@
    "N"  :> << <<"X"," "," "," ","X">>,
               <<"X","X"," "," ","X">>,
               <<"X","X"," "," ","X">>,
               <<"X"," ","X"," ","X">>,
               <<"X"," "," ","X","X">>,
               <<"X"," "," ","X","X">>,
               <<"X"," "," "," ","X">> >> @@
    "T"  :> << <<"X","X","X","X","X">>,
               <<" "," ","X"," "," ">>,
               <<" "," ","X"," "," ">>,
               <<" "," ","X"," "," ">>,
               <<" "," ","X"," "," ">>,
               <<" "," ","X"," "," ">>,
               <<" "," ","X"," "," ">> >> @@
    "P"  :> << <<"X","X","X","X"," ">>,
               <<"X"," "," "," ","X">>,
               <<"X"," "," "," ","X">>,
               <<"X","X","X","X"," ">>,
               <<"X"," "," "," "," ">>,
               <<"X"," "," "," "," ">>,
               <<"X"," "," "," "," ">> >> @@
    "A"  :> << <<" ","X","X","X"," ">>,
               <<"X"," "," "," ","X">>,
               <<"X"," "," "," ","X">>,
               <<"X","X","X","X","X">>,
               <<"X"," "," "," ","X">>,
               <<"X"," "," "," ","X">>,
               <<"X"," "," "," ","X">> >> @@
    "I"  :> << <<"X","X","X","X","X">>,
               <<" "," ","X"," "," ">>,
               <<" "," ","X"," "," ">>,
               <<" "," ","X"," "," ">>,
               <<" "," ","X"," "," ">>,
               <<" "," ","X"," "," ">>,
               <<"X","X","X","X","X">> >> @@
    "C"  :> << <<" ","X","X","X"," ">>,
               <<"X"," "," "," ","X">>,
               <<"X"," "," "," "," ">>,
               <<"X"," "," "," "," ">>,
               <<"X"," "," "," "," ">>,
               <<"X"," "," "," ","X">>,
               <<" ","X","X","X"," ">> >> @@
    "'"  :> << <<"X"," "," "," "," ">>,
               <<" ","X"," "," "," ">>,
               <<" ","X"," "," "," ">>,
               <<" "," "," "," "," ">>,
               <<" "," "," "," "," ">>,
               <<" "," "," "," "," ">>,
               <<" "," "," "," "," ">> >> @@
    " "  :> << <<" "," "," "," "," ">>,
               <<" "," "," "," "," ">>,
               <<" "," "," "," "," ">>,
               <<" "," "," "," "," ">>,
               <<" "," "," "," "," ">>,
               <<" "," "," "," "," ">>,
               <<" "," "," "," "," ">> >>

\* the module constants as the file sets them (lines 40, 41, 112)
ConfigAsWritten ==
  /\ LETTER_SPACING = 1
  /\ LETTER_THICKNESS_HORIZONTAL = 0
  /\ LETTER_THICKNESS_VERTICAL = 0

\* values the three constants are edited to
Spacings == {0, 1, 2}
Thicknesses == {-2, -1, 0, 1, 2}

(***************************************************************************)
(* The generator of `random`, abstracted to a linear congruential          *)
(* generator over 0..RngModulus-1: seeding replaces the whole state, every *)
(* draw advances the state and is a function of it.  A draw r stands for   *)
(* the float r / RngModulus in [0, 1).                                     *)
(***************************************************************************)
RngModulus == 1024

\* states the generator may be in when the process starts (seeded by the OS)
UnseededStates == { s \in 0..(RngModulus - 1) : s % 512 = 5 }

\* a seed call that leaves the generator where it was
random_seed_ignored(state, x) == state

\* random.seed(x): the state after it depends on x alone
random_seed(state, x) == x % RngModulus

\* random.random(): the state after the draw, which is also the value drawn
random(state) == (5 * state + 3) % RngModulus

Max(a, b) == IF a > b THEN a ELSE b
Abs(a) == IF a < 0 THEN -a ELSE a
Repeat(x, n) == [k \in 1..n |-> x]

RECURSIVE sum_weights(_, _)
sum_weights(weights, k) ==
  IF k = 0 THEN 0 ELSE sum_weights(weights, k - 1) + weights[k]

\* bisect(cum_weights, x, 0, hi) for x = r / RngModulus * total: the first
\* index k whose cumulative weight exceeds x, hi when there is none below hi
RECURSIVE bisect(_, _, _, _, _)
bisect(weights, x_num, k, cum, hi) ==
  IF k >= hi THEN hi
  ELSE IF x_num < (cum + weights[k]) * RngModulus THEN k
  ELSE bisect(weights, x_num, k + 1, cum + weights[k], hi)

\* a draw that gives every id the same chance, whatever its weight
choices_unweighted(ids, weights, r) == ids[((r * Len(ids)) \div RngModulus) + 1]

\* random.choices(ids, weights=weights, k=1)[0] for the draw r
choices(ids, weights, r) ==
  ids[bisect(weights, r * sum_weights(weights, Len(ids)), 1, 0, Len(ids))]

\* random.choice(seq) for the draw r
choice(seq, r) == seq[((r * Len(seq)) \div RngModulus) + 1]

\* pick_item: the id picked, the generator and the cache it leaves behind
pick_item(state, cache) ==
  LET filled == IF "ids" \notin DOMAIN cache
                THEN [ids |-> [k \in 1..Len(ITEMS) |-> ITEMS[k][1]],
                      weights |-> [k \in 1..Len(ITEMS) |-> ITEMS[k][2]]]
                ELSE cache
  IN  Only({ [item |-> choices(f.ids, f.weights, r), rng |-> r, cache |-> f] :
               f \in { filled }, r \in { random(state) } })

\* expand_pattern keeping the rows 0, step, 2*step, ... of a thinned glyph
expand_pattern_stride(pattern, h_expand, v_expand) ==
  IF h_expand = 0 /\ v_expand = 0 THEN pattern
  ELSE LET copies == 1 + Max(v_expand, 0)
           duplicated == [j \in 1..(Len(pattern) * copies) |->
                            pattern[((j - 1) \div copies) + 1]]
           step == Max(1, 1 \div (1 + Abs(v_expand)))
           expanded == IF v_expand < 0
                       THEN [j \in 1..((Len(duplicated) + step - 1) \div step) |->
                               duplicated[(j - 1) * step + 1]]
                       ELSE duplicated
           wide(row) == IF h_expand > 0
                        THEN [j \in 1..(Len(row) * (1 + h_expand)) |->
                                row[((j - 1) \div (1 + h_expand)) + 1]]
                        ELSE row
       IN  IF h_expand # 0 THEN [j \in 1..Len(expanded) |-> wide(expanded[j])]
           ELSE expanded

\* expand_pattern
expand_pattern(pattern, h_expand, v_expand) ==
  IF h_expand = 0 /\ v_expand = 0 THEN pattern
  ELSE LET copies == 1 + Max(v_expand, 0)
           \* every row followed by v_expand copies of it
           duplicated == [j \in 1..(Len(pattern) * copies) |->
                            pattern[((j - 1) \div copies) + 1]]
           step == Max(1, 1 \div (1 + Abs(v_expand)))
           \* range(0, len(expanded), step + 1)
           expanded == IF v_expand < 0
                       THEN [j \in 1..((Len(duplicated) + step) \div (step + 1)) |->
                               duplicated[(j - 1) * (step + 1) + 1]]
                       ELSE duplicated
           wide(row) == IF h_expand > 0
                        THEN [j \in 1..(Len(row) * (1 + h_expand)) |->
                                row[((j - 1) \div (1 + h_expand)) + 1]]
                        ELSE row
       IN  IF h_expand # 0 THEN [j \in 1..Len(expanded) |-> wide(expanded[j])]
           ELSE expanded

\* lines 350-356: a letter's pattern after the thickness adjustment
adjusted_letters(letter) ==
  expand_pattern(LETTERS[letter], LETTER_THICKNESS_HORIZONTAL,
                 LETTER_THICKNESS_VERTICAL)

\* line 362: adjusted_letters.get(char, adjusted_letters[' '])
pattern_of(char) ==
  IF char \in DOMAIN LETTERS THEN adjusted_letters(char) ELSE adjusted_letters(" ")

\* line 358: the number of rows of the grid
grid_rows ==
  LET lens == { Len(adjusted_letters(l)) : l \in DOMAIN LETTERS }
  IN  CHOOSE n \in lens : \A o \in lens : o <= n

NoCell == [kind |-> "None"]

\* lines 371-375: the fields of a CellData drawn after the item p, in the
\* order of the fields.  rotation, offset_x and offset_y are kept as
\* numerators over RngModulus.
cell_data(p, r2, r3, r4, r5, r6) ==
  [cell |-> [kind |-> "CellData",
             item_id |-> p.item,
             terrain_id |-> choice(TERRAINS, r2),
             rotation |-> RANDOM_ROTATION_MAX * r3,
             flip_h |-> choice(<< TRUE, FALSE >>, r4),
             offset_x |-> (2 * r5 - RngModulus) * RANDOM_OFFSET_X,
             offset_y |-> (2 * r6 - RngModulus) * RANDOM_OFFSET_Y],
   rng |-> r6, cache |-> p.cache]

\* lines 369-376: one CellData, the generator and the cache after it
new_cell(state, cache) ==
  Only({ cell_data(p, random(p.rng), random(random(p.rng)),
                   random(random(random(p.rng))),
                   random(random(random(random(p.rng)))),
                   random(random(random(random(random(p.rng)))))) :
           p \in { pick_item(state, cache) } })

\* lines 367-378: the cells of one pattern row, from column k on
RECURSIVE build_row(_, _, _, _, _)
build_row(row_pattern, k, cells, state, cache) ==
  IF k > Len(row_pattern) THEN [cells |-> cells, rng |-> state, cache |-> cache]
  ELSE IF row_pattern[k] # " "
  THEN Only({ build_row(row_pattern, k + 1, Append(cells, n.cell), n.rng, n.cache) :
                n \in { new_cell(state, cache) } })
  ELSE build_row(row_pattern, k + 1, Append(cells, NoCell), state, cache)

\* line 365: row r of a pattern, five blanks below its last row
row_pattern_of(pattern, r) ==
  IF r <= Len(pattern) THEN pattern[r] ELSE << " ", " ", " ", " ", " " >>

\* the rows of one character with the spacer put after the last character too
RECURSIVE build_rows_trailing(_, _, _, _, _, _)
build_rows_trailing(pattern, r, grid, state, cache, spaced) ==
  IF r > Len(grid) THEN [grid |-> grid, rng |-> state, cache |-> cache]
  ELSE Only({ build_rows_trailing(pattern, r + 1,
                [grid EXCEPT ![r] = b.cells \o Repeat(NoCell, LETTER_SPACING)],
                b.rng, b.cache, spaced) :
                b \in { build_row(row_pattern_of(pattern, r), 1, grid[r], state, cache) } })

\* lines 364-383: the rows of one character, from row r on; spaced says
\* whether the character is followed by another one
RECURSIVE build_rows(_, _, _, _, _, _)
build_rows(pattern, r, grid, state, cache, spaced) ==
  IF r > Len(grid) THEN [grid |-> grid, rng |-> state, cache |-> cache]
  ELSE Only({ build_rows(pattern, r + 1,
                [grid EXCEPT ![r] = IF spaced
                                    THEN b.cells \o Repeat(NoCell, LETTER_SPACING)
                                    ELSE b.cells],
                b.rng, b.cache, spaced) :
                b \in { build_row(row_pattern_of(pattern, r), 1, grid[r], state, cache) } })

\* lines 361-383: the characters of text, from char_idx on
RECURSIVE build_chars(_, _, _, _, _)
build_chars(text, char_idx, grid, state, cache) ==
  IF char_idx > Len(text) THEN [grid |-> grid, rng |-> state, cache |-> cache]
  ELSE Only({ build_chars(text, char_idx + 1, b.grid, b.rng, b.cache) :
                b \in { build_rows(pattern_of(text[char_idx]), 1, grid, state, cache,
                                   char_idx < Len(text)) } })

\* build_grid: the grid, the generator and the cache it leaves behind
build_grid(text, state, cache) ==
  build_chars(text, 1, Repeat(<< >>, grid_rows), state, cache)

NoFile == [kind |-> "absent"]

\* main not started
MainIdle ==
  /\ pc = "idle"
  /\ present = {}
  /\ content = NoFile
  /\ error = ""
  /\ tmp_dir = FALSE
  /\ saved = << >>
  /\ cursor = << 0, 0 >>

\* gen-unifont.py never run, nothing on disk
FontIdle ==
  /\ data_file = NoFile
  /\ chars_file = NoFile
  /\ input_font = "absent"
  /\ output_font = NoFile
  /\ mode = ""
  /\ exit_code = 0
  /\ font_runs = 0

\* no cell handled yet
RenderIdle ==
  /\ cell = NoCell
  /\ layers = << >>
  /\ cells_done = 0
  /\ img_width = 0
  /\ img_height = 0
  /\ y_offset = 0
  /\ boxes = << >>

\* nothing seeded, nothing built
GridIdle ==
  /\ rng = 0
  /\ PICK_CACHE = << >>
  /\ seed = 0
  /\ variations = 0
  /\ words = << >>
  /\ grids = << >>

\* the loader of a manifest without chunks, never called
LoaderIdle ==
  /\ tileset_data = [tile_info |-> << [width |-> 32, height |-> 32] >>,
                     tiles_new |-> << >>]
  /\ tile_width = 32
  /\ tile_height = 32
  /\ image_cache = << >>
  /\ ranges = << >>
  /\ item_id = ""
  /\ result = NoCall
  /\ matched = << >>
  /\ tile = NoCall
  /\ builds = 0
  /\ decodes = [f \in Files |-> 0]
  /\ first = NoCall
  /\ calls = 0

\* longest run of build_grid calls after one random.seed
MaxWords == 2
\* longest text given to build_grid
MaxTextLen == 2

\* the words main renders, and a shorter one
Words ==
  { << "D", "O", "N", "'", "T" >>, << "P", "A", "N", "I", "C" >>, << "D", "O" >> }

\* line 649: random.seed(i * 42)
Seed(i) ==
  /\ variations < NUM_VARIATIONS
  /\ rng' = random_seed(rng, i * 42)
  /\ seed' = i * 42
  /\ variations' = variations + 1
  /\ words' = << >>
  /\ grids' = << >>
  /\ UNCHANGED << PICK_CACHE, loader_vars, config_vars, render_vars >>
  /\ UNCHANGED << main_vars, font_vars >>

\* a call of build_grid(text), as at lines 401 and 402
BuildGrid(text) ==
  /\ Len(words) < MaxWords
  /\ \E b \in { build_grid(text, rng, PICK_CACHE) } :
         /\ rng' = b.rng
         /\ PICK_CACHE' = b.cache
         /\ grids' = Append(grids, b.grid)
  /\ words' = Append(words, text)
  /\ UNCHANGED << seed, variations, loader_vars, config_vars, render_vars >>
  /\ UNCHANGED << main_vars, font_vars >>

\* the process before main seeds the generator for the first time
GridInit ==
  /\ LoaderIdle
  /\ ConfigAsWritten
  /\ rng \in UnseededStates
  /\ PICK_CACHE = << >>
  /\ seed = 0
  /\ variations = 0
  /\ words = << >>
  /\ grids = << >>
  /\ RenderIdle
  /\ MainIdle
  /\ FontIdle

GridNext ==
  \/ \E i \in 1..NUM_VARIATIONS : Seed(i)
  \/ \E text \in Words : BuildGrid(text)

\* random.seed and build_grid calls in any order
SpecGrid == GridInit /\ [][GridNext]_vars

\* characters of the texts: three with a glyph and one without
Alphabet == {"D", "O", "'", "?"}

Texts == SeqsUpTo(Alphabet, MaxTextLen)

\* one build_grid call under edited module constants
GlyphInit ==
  /\ LoaderIdle
  /\ LETTER_SPACING \in Spacings
  /\ LETTER_THICKNESS_HORIZONTAL \in Thicknesses
  /\ LETTER_THICKNESS_VERTICAL \in Thicknesses
  /\ rng \in UnseededStates
  /\ PICK_CACHE = << >>
  /\ seed = 0
  /\ variations = 0
  /\ words = << >>
  /\ grids = << >>
  /\ RenderIdle
  /\ MainIdle
  /\ FontIdle

GlyphNext == \E text \in Texts : words = << >> /\ BuildGrid(text)

SpecGlyph == GlyphInit /\ [][GlyphNext]_vars

\* texts of few cells: three for the apostrophe, eleven for "I"
PickTexts == { << "'" >>, << "I" >> }

\* a process whose generator is in any state when build_grid is first called
PickInit ==
  /\ LoaderIdle
  /\ ConfigAsWritten
  /\ rng \in 0..(RngModulus - 1)
  /\ PICK_CACHE = << >>
  /\ seed = 0
  /\ variations = 0
  /\ words = << >>
  /\ grids = << >>
  /\ RenderIdle
  /\ MainIdle
  /\ FontIdle

PickNext == \E text \in PickTexts : BuildGrid(text)

\* build_grid calls from every state of the generator
SpecPick == PickInit /\ [][PickNext]_vars

\* TileDataLoader.__init__ on a manifest that loads
Init ==
  /\ tileset_data \in Manifests
  /\ tile_width = tileset_data.tile_info[1].width
  /\ tile_height = tileset_data.tile_info[1].height
  /\ image_cache = << >>
  /\ ranges = << >>
  /\ item_id = ""
  /\ result = NoCall
  /\ matched = << >>
  /\ tile = NoCall
  /\ builds = 0
  /\ decodes = [f \in Files |-> 0]
  /\ first = NoCall
  /\ calls = 0
  /\ ConfigAsWritten
  /\ GridIdle
  /\ RenderIdle
  /\ MainIdle
  /\ FontIdle

\* a call of tile_loader.find_tile(id)
FindTile(id) ==
  /\ calls < MaxCalls
  /\ \E r \in { find_tile(tileset_data, image_cache, id) } :
         /\ image_cache' = r.cache
         /\ ranges' = r.ranges
         /\ result' = r.result
         /\ matched' = r.matched
         /\ builds' = IF r.built THEN builds + 1 ELSE builds
         /\ decodes' = count_opened(decodes, r.opened)
         /\ first' = IF first = NoCall
                     THEN [kind |-> "call", id |-> id, result |-> r.result]
                     ELSE first
  /\ item_id' = id
  /\ calls' = calls + 1
  /\ UNCHANGED << tileset_data, tile_width, tile_height, tile >>
  /\ UNCHANGED << config_vars, grid_vars, render_vars >>
  /\ UNCHANGED << main_vars, font_vars >>

\* get_tile_image without the cache lookup: every call stores a bitmap
get_tile_image_uncached(cache, tile_pos) ==
  LET stored == IF ~exists(tile_pos.file) THEN Placeholder
                ELSE ImageOpen(tile_pos.file)
      cache2 == [f \in DOMAIN cache \cup {tile_pos.file} |->
                   IF f = tile_pos.file THEN stored ELSE cache[f]]
      x == tile_pos.tx * tile_pos.width
      y == tile_pos.ty * tile_pos.height
  IN  [cache |-> cache2,
       opened |-> << tile_pos.file >>,
       tile |-> [kind |-> "tile", pos |-> tile_pos, spritesheet |-> cache2[tile_pos.file],
                 box |-> << x, y, x + tile_pos.width, y + tile_pos.height >>]]

\* TileDataLoader.get_tile_image: the cache it leaves and the crop it returns
get_tile_image(cache, tile_pos) ==
  LET miss == tile_pos.file \notin DOMAIN cache
      cache2 == IF ~miss THEN cache
                ELSE IF ~exists(tile_pos.file)
                THEN cache @@ (tile_pos.file :> Placeholder)
                ELSE cache @@ (tile_pos.file :> ImageOpen(tile_pos.file))
      x == tile_pos.tx * tile_pos.width
      y == tile_pos.ty * tile_pos.height
  IN  [cache |-> cache2,
       opened |-> IF miss THEN << tile_pos.file >> ELSE << >>,
       tile |-> [kind |-> "tile", pos |-> tile_pos, spritesheet |-> cache2[tile_pos.file],
                 box |-> << x, y, x + tile_pos.width, y + tile_pos.height >>]]

\* a call of tile_loader.get_tile_image on a position the last find_tile gave
GetTileImage(layer) ==
  /\ calls < MaxCalls
  /\ result.kind = "TileInfo"
  /\ result[layer].kind = "TilePosition"
  /\ \E g \in { get_tile_image(image_cache, result[layer]) } :
         /\ image_cache' = g.cache
         /\ decodes' = count_opened(decodes, g.opened)
         /\ tile' = g.tile
  /\ calls' = calls + 1
  /\ UNCHANGED << tileset_data, tile_width, tile_height, ranges, item_id, result,
                  matched, builds, first >>
  /\ UNCHANGED << config_vars, grid_vars, render_vars >>
  /\ UNCHANGED << main_vars, font_vars >>

(***************************************************************************)
(* render_dont_panic, lines 429-491: the body of the loop for one cell of  *)
(* a row.                                                                  *)
(***************************************************************************)
SPRITE_BORDER_WIDTH == 1

\* `tile_info and tile_info.fg`
has_fg(found) == found.kind = "TileInfo" /\ found.fg.kind = "TilePosition"

\* the square rotated first, then flipped, then given its border
finish_rotate_first(c) ==
  << "rotate" >>
  \o (IF c.flip_h THEN << "flip" >> ELSE << >>)
  \o (IF SPRITE_BORDER_WIDTH > 0 THEN << "border" >> ELSE << >>)
  \o << "paste" >>

\* lines 462-489: what follows the sprite layers
finish(c) ==
  (IF SPRITE_BORDER_WIDTH > 0 THEN << "border" >> ELSE << >>)
  \o (IF c.flip_h THEN << "flip" >> ELSE << >>)
  \o << "rotate", "paste" >>

\* lines 451-489: the cell after the terrain lookup f2
render_terrain(c, f1, g1, f2) ==
  IF f2.result.kind = "raise"
  THEN [cache |-> f2.cache, opened |-> f1.opened \o g1.opened \o f2.opened,
        found |-> << f1, f2 >>, images |-> 1, tile |-> g1.tile,
        layers |-> << "fill" >>]
  ELSE IF has_fg(f2.result)
  THEN Only({ [cache |-> g2.cache,
               opened |-> f1.opened \o g1.opened \o f2.opened \o g2.opened,
               found |-> << f1, f2 >>, images |-> 2, tile |-> g2.tile,
               layers |-> << "fill", "terrain", "item" >> \o finish(c)] :
                g2 \in { get_tile_image(f2.cache, f2.result.fg) } })
  ELSE [cache |-> f2.cache, opened |-> f1.opened \o g1.opened \o f2.opened,
        found |-> << f1, f2 >>, images |-> 1, tile |-> g1.tile,
        layers |-> << "fill", "item" >> \o finish(c)]

\* lines 434-489: the cell after the item lookup f1
render_item(data, c, f1) ==
  IF ~has_fg(f1.result)
  THEN [cache |-> f1.cache, opened |-> f1.opened, found |-> << f1 >>,
        images |-> 0, tile |-> NoCall, layers |-> << >>]
  ELSE Only({ Only({ render_terrain(c, f1, g1, f2) :
                       f2 \in { find_tile(data, g1.cache, c.terrain_id) } }) :
                g1 \in { get_tile_image(f1.cache, f1.result.fg) } })

\* the loader calls of one cell and what they leave: found lists the results
\* of the find_tile calls made, images counts the get_tile_image calls, tile
\* is what the last of them returned (NoCall if none was made)
render_cell(data, cache, c) ==
  Only({ render_item(data, c, f1) : f1 \in { find_tile(data, cache, c.item_id) } })

\* cells of the row being rendered: the ids build_grid can give a cell that
\* the manifests of ChunkPool list or leave out
RowCells ==
  { [kind |-> "CellData", item_id |-> i, terrain_id |-> t, rotation |-> 0,
     flip_h |-> f, offset_x |-> 0, offset_y |-> 0] :
      i \in {"mon_zombie", "towel", "guidebook"}, t \in {"t_grass", "t_moss"},
      f \in BOOLEAN }

\* cells of one row
MaxCells == 2

\* the loop body at lines 429-491 for the next cell of the row; an exception
\* of find_tile ends render_dont_panic
RenderCell(c) ==
  /\ cells_done < MaxCells
  /\ result.kind # "raise"
  /\ \E r \in { render_cell(tileset_data, image_cache, c) } :
       \E last \in { r.found[Len(r.found)] } :
         /\ image_cache' = r.cache
         /\ decodes' = count_opened(decodes, r.opened)
         /\ ranges' = last.ranges
         /\ result' = last.result
         /\ matched' = last.matched
         /\ item_id' = (IF Len(r.found) = 1 THEN c.item_id ELSE c.terrain_id)
         /\ builds' = builds + Len(r.found)
         /\ calls' = calls + Len(r.found) + r.images
         /\ tile' = (IF r.tile = NoCall THEN tile ELSE r.tile)
         /\ first' = IF first = NoCall
                     THEN [kind |-> "call", id |-> c.item_id, result |-> r.found[1].result]
                     ELSE first
         /\ layers' = r.layers
  /\ cell' = c
  /\ cells_done' = cells_done + 1
  /\ UNCHANGED << tileset_data, tile_width, tile_height, config_vars, grid_vars >>
  /\ UNCHANGED layout_vars
  /\ UNCHANGED << main_vars, font_vars >>

\* a loader on a manifest that loads, about to render a row
RenderInit ==
  /\ tileset_data \in Manifests
  /\ tile_width = tileset_data.tile_info[1].width
  /\ tile_height = tileset_data.tile_info[1].height
  /\ image_cache = << >>
  /\ ranges = << >>
  /\ item_id = ""
  /\ result = NoCall
  /\ matched = << >>
  /\ tile = NoCall
  /\ builds = 0
  /\ decodes = [f \in Files |-> 0]
  /\ first = NoCall
  /\ calls = 0
  /\ ConfigAsWritten
  /\ GridIdle
  /\ RenderIdle
  /\ MainIdle
  /\ FontIdle

RenderNext == \E c \in RowCells : RenderCell(c)

SpecRender == RenderInit /\ [][RenderNext]_vars

(***************************************************************************)
(* main of dont_panic.py, lines 607-657: find the manifest, load it,       *)
(* create tmp/, render the legend, then the variations one after another.  *)
(* The runs modelled are those given a root folder on the command line.    *)
(***************************************************************************)
\* find_tileset_json, lines 508-513: the candidate paths in the order tried
CANDIDATES ==
  << "tileset/tile_config.json", "tileset/tileset.json", "tile_config.json",
     "tileset.json" >>

\* find_tileset_json: index of the first candidate that exists, 0 for None
RECURSIVE find_tileset_json(_, _)
find_tileset_json(paths, k) ==
  IF k > Len(CANDIDATES) THEN 0
  ELSE IF CANDIDATES[k] \in paths THEN k
  ELSE find_tileset_json(paths, k + 1)

\* a file open() cannot read, and one json.load() cannot parse
Unreadable == [kind |-> "unreadable"]
Malformed == [kind |-> "malformed"]

\* a file holding the JSON object v
Json(v) == [kind |-> "json", v |-> v]

\* an __init__ that takes 32x32 for a manifest without a usable tile_info
loader_init_defaulting(file) ==
  IF file.kind = "unreadable" THEN Raise("OSError")
  ELSE IF file.kind = "malformed" THEN Raise("JSONDecodeError")
  ELSE IF \/ "tile_info" \notin DOMAIN file.v
          \/ Len(file.v.tile_info) = 0
          \/ "width" \notin DOMAIN file.v.tile_info[1]
          \/ "height" \notin DOMAIN file.v.tile_info[1]
  THEN [kind |-> "loader", tileset_data |-> file.v, tile_width |-> 32,
        tile_height |-> 32]
  ELSE [kind |-> "loader", tileset_data |-> file.v,
        tile_width |-> file.v.tile_info[1].width,
        tile_height |-> file.v.tile_info[1].height]

\* TileDataLoader.__init__, lines 146-158: the loader, or what it raises
loader_init(file) ==
  IF file.kind = "unreadable" THEN Raise("OSError")
  ELSE IF file.kind = "malformed" THEN Raise("JSONDecodeError")
  ELSE IF "tile_info" \notin DOMAIN file.v THEN Raise("KeyError")
  ELSE IF Len(file.v.tile_info) = 0 THEN Raise("IndexError")
  ELSE IF "width" \notin DOMAIN file.v.tile_info[1] THEN Raise("KeyError")
  ELSE IF "height" \notin DOMAIN file.v.tile_info[1] THEN Raise("KeyError")
  ELSE [kind |-> "loader", tileset_data |-> file.v,
        tile_width |-> file.v.tile_info[1].width,
        tile_height |-> file.v.tile_info[1].height]

\* the loader calls of a stretch of main and what they leave: the cache, the
\* files decoded, the numbers of find_tile and get_tile_image calls, the last
\* find_tile call and its id, the last tile cropped, the first find_tile call,
\* the last cell handled with its layers, and the number of cells handled
Stretch ==
  [cache |-> image_cache, opened |-> << >>, finds |-> 0, images |-> 0,
   last |-> NoCall, last_id |-> item_id, tile |-> tile, first |-> first,
   cell |-> cell, layers |-> layers, cells |-> 0]

\* find_tile raised in this stretch
raised(acc) == acc.last # NoCall /\ acc.last.result.kind = "raise"

\* lines 576-578 and 594-596: find_tile(id), then get_tile_image of its fg
lookup_found(acc, id, f) ==
  IF has_fg(f.result)
  THEN Only({ [acc EXCEPT !.cache = g.cache,
                          !.opened = @ \o f.opened \o g.opened,
                          !.finds = @ + 1, !.images = @ + 1,
                          !.last = f, !.last_id = id, !.tile = g.tile,
                          !.first = IF @ = NoCall
                                    THEN [kind |-> "call", id |-> id, result |-> f.result]
                                    ELSE @] :
                g \in { get_tile_image(f.cache, f.result.fg) } })
  ELSE [acc EXCEPT !.cache = f.cache, !.opened = @ \o f.opened,
                   !.finds = @ + 1, !.last = f, !.last_id = id,
                   !.first = IF @ = NoCall
                             THEN [kind |-> "call", id |-> id, result |-> f.result]
                             ELSE @]

lookup(data, acc, id) ==
  Only({ lookup_found(acc, id, f) : f \in { find_tile(data, acc.cache, id) } })

\* lines 523-530: the ids of the legend
active_items == [k \in 1..Len(ITEMS) |-> ITEMS[k][1]]
active_terrains == TERRAINS

\* a legend that shows the items only
legend_ids_items_only == active_items

\* lines 571 and 589: the ids render_legend looks up, in order
legend_ids == active_items \o active_terrains

\* render_legend, lines 571-601: the lookups from id k on, until one raises
RECURSIVE legend_from(_, _, _)
legend_from(data, k, acc) ==
  IF k > Len(legend_ids) \/ raised(acc) THEN acc
  ELSE Only({ legend_from(data, k + 1, a) : a \in { lookup(data, acc, legend_ids[k]) } })

\* lines 432-491 for one cell c of a row
row_cell(data, acc, c) ==
  Only({ [acc EXCEPT !.cache = r.cache, !.opened = @ \o r.opened,
                     !.finds = @ + Len(r.found), !.images = @ + r.images,
                     !.last = r.found[Len(r.found)],
                     !.last_id = IF Len(r.found) = 1 THEN c.item_id ELSE c.terrain_id,
                     !.tile = IF r.tile = NoCall THEN @ ELSE r.tile,
                     !.first = IF @ = NoCall
                               THEN [kind |-> "call", id |-> c.item_id,
                                     result |-> r.found[1].result]
                               ELSE @,
                     !.cell = c, !.layers = r.layers, !.cells = @ + 1] :
           r \in { render_cell(data, acc.cache, c) } })

\* lines 431-491: the cells of a row from column k on, until find_tile raises
RECURSIVE row_from(_, _, _, _)
row_from(data, row, k, acc) ==
  IF k > Len(row) \/ raised(acc) THEN acc
  ELSE IF row[k] = NoCell THEN row_from(data, row, k + 1, acc)
  ELSE Only({ row_from(data, row, k + 1, a) : a \in { row_cell(data, acc, row[k]) } })

\* what a stretch of loader calls leaves in the loader and the render loop
After(acc) ==
  /\ image_cache' = acc.cache
  /\ decodes' = count_opened(decodes, acc.opened)
  /\ ranges' = (IF acc.last = NoCall THEN ranges ELSE acc.last.ranges)
  /\ result' = (IF acc.last = NoCall THEN result ELSE acc.last.result)
  /\ matched' = (IF acc.last = NoCall THEN matched ELSE acc.last.matched)
  /\ item_id' = acc.last_id
  /\ builds' = builds + acc.finds
  /\ calls' = calls + acc.finds + acc.images
  /\ tile' = acc.tile
  /\ first' = acc.first
  /\ cell' = acc.cell
  /\ layers' = acc.layers
  /\ cells_done' = cells_done + acc.cells

\* lines 622-627: find_tileset_json(root_path); sys.exit(1) if it gives None
FindTilesetJson ==
  /\ pc = "start"
  /\ IF find_tileset_json(present, 1) = 0
     THEN pc' = "exit" /\ error' = "exit 1"
     ELSE pc' = "load" /\ error' = error
  /\ UNCHANGED << present, content, tmp_dir, saved, cursor >>
  /\ UNCHANGED << loader_vars, config_vars, grid_vars, render_vars, font_vars >>

\* line 635: TileDataLoader(tileset_json_path, tiles_directory)
LoadTileData ==
  /\ pc = "load"
  /\ \E l \in { loader_init(content) } :
       IF l.kind = "raise"
       THEN /\ pc' = "exit"
            /\ error' = l.exc
            /\ UNCHANGED << tileset_data, tile_width, tile_height >>
       ELSE /\ pc' = "mkdir"
            /\ error' = error
            /\ tileset_data' = l.tileset_data
            /\ tile_width' = l.tile_width
            /\ tile_height' = l.tile_height
  /\ UNCHANGED << image_cache, ranges, item_id, result, matched, tile, builds,
                  decodes, first, calls >>
  /\ UNCHANGED << present, content, tmp_dir, saved, cursor >>
  /\ UNCHANGED << config_vars, grid_vars, render_vars, font_vars >>

\* lines 638-639: tmp_dir.mkdir(exist_ok=True)
MakeTmpDir ==
  /\ pc = "mkdir"
  /\ tmp_dir' = TRUE
  /\ pc' = "legend"
  /\ UNCHANGED << present, content, error, saved, cursor >>
  /\ UNCHANGED << loader_vars, config_vars, grid_vars, render_vars, font_vars >>

\* lines 642-643: render_legend(tile_loader, legend_path, ITEMS, TERRAINS)
RenderLegend ==
  /\ pc = "legend"
  /\ \E acc \in { legend_from(tileset_data, 1, Stretch) } :
       /\ After(acc)
       /\ IF raised(acc)
          THEN pc' = "exit" /\ error' = acc.last.result.exc /\ saved' = saved
          ELSE pc' = "seed" /\ error' = error /\ saved' = Append(saved, 0)
  /\ UNCHANGED layout_vars
  /\ UNCHANGED << tileset_data, tile_width, tile_height >>
  /\ UNCHANGED << present, content, tmp_dir, cursor >>
  /\ UNCHANGED << config_vars, grid_vars, font_vars >>

\* lines 647-649: the next variation i; random.seed(i * 42)
SeedVariation ==
  /\ pc = "seed"
  /\ variations < NUM_VARIATIONS
  /\ rng' = random_seed(rng, (variations + 1) * 42)
  /\ seed' = (variations + 1) * 42
  /\ variations' = variations + 1
  /\ words' = << >>
  /\ grids' = << >>
  /\ pc' = "build"
  /\ UNCHANGED PICK_CACHE
  /\ UNCHANGED << present, content, error, tmp_dir, saved, cursor >>
  /\ UNCHANGED << loader_vars, config_vars, render_vars, font_vars >>

\* lines 21, 42 and 410: cell pitch, canvas margin, gap between the words
GRID_CELL_SIZE == 28
PADDING == 48
word_spacing == 40

\* line 406: max(len(row) for grid in grids for row in grid)
max_cols(gs) ==
  LET lens == UNION { { Len(gs[g][r]) : r \in 1..Len(gs[g]) } : g \in 1..Len(gs) }
  IN  CHOOSE n \in lens : \A o \in lens : o <= n

\* line 407: sum(len(grid) for grid in grids)
RECURSIVE total_rows(_, _)
total_rows(gs, g) == IF g > Len(gs) THEN 0 ELSE Len(gs[g]) + total_rows(gs, g + 1)

\* a row whose column offset advances past non-empty cells only
RECURSIVE row_boxes_ink_only(_, _, _, _, _)
row_boxes_ink_only(row, k, x_offset, y, at) ==
  IF k > Len(row) THEN << >>
  ELSE << [x |-> x_offset, y |-> y, grid |-> at[1], row |-> at[2],
           ink |-> row[k] # NoCell] >>
       \o row_boxes_ink_only(row, k + 1,
                             IF row[k] # NoCell THEN x_offset + GRID_CELL_SIZE
                             ELSE x_offset, y, at)

\* lines 427-491: the nominal box (left and top edge) of every cell of the
\* row at << grid, row >>, from column k on; x_offset advances at line 491
RECURSIVE row_boxes(_, _, _, _, _)
row_boxes(row, k, x_offset, y, at) ==
  IF k > Len(row) THEN << >>
  ELSE << [x |-> x_offset, y |-> y, grid |-> at[1], row |-> at[2],
           ink |-> row[k] # NoCell] >>
       \o row_boxes(row, k + 1, x_offset + GRID_CELL_SIZE, y, at)

\* lines 495-497: what is added to y_offset after the last row of grid
\* grid_idx (counted from 0)
word_gap(grid_idx) == IF grid_idx = 0 THEN word_spacing ELSE 0

\* render_dont_panic, lines 401-423: grid1 and grid2, the canvas, y_offset
BuildGrids(word1, word2) ==
  /\ pc = "build"
  /\ \E b1 \in { build_grid(word1, rng, PICK_CACHE) } :
       \E b2 \in { build_grid(word2, b1.rng, b1.cache) } :
         /\ rng' = b2.rng
         /\ PICK_CACHE' = b2.cache
         /\ grids' = << b1.grid, b2.grid >>
         /\ img_width' = max_cols(<< b1.grid, b2.grid >>) * GRID_CELL_SIZE + 2 * PADDING
         /\ img_height' = total_rows(<< b1.grid, b2.grid >>, 1) * GRID_CELL_SIZE
                            + word_spacing + 2 * PADDING
  /\ y_offset' = PADDING
  /\ boxes' = << >>
  /\ words' = << word1, word2 >>
  /\ cursor' = << 1, 1 >>
  /\ pc' = "rows"
  /\ UNCHANGED << seed, variations >>
  /\ UNCHANGED << present, content, error, tmp_dir, saved >>
  /\ UNCHANGED << cell, layers, cells_done >>
  /\ UNCHANGED << loader_vars, config_vars, font_vars >>

\* render_dont_panic, lines 426-497: the next row of the grids
RenderRow ==
  /\ pc = "rows"
  /\ \E acc \in { row_from(tileset_data, grids[cursor[1]][cursor[2]], 1, Stretch) } :
       /\ After(acc)
       /\ IF raised(acc)
          THEN /\ pc' = "exit" /\ error' = acc.last.result.exc /\ cursor' = cursor
               /\ UNCHANGED << y_offset, boxes >>
          ELSE /\ error' = error
               /\ boxes' = row_boxes(grids[cursor[1]][cursor[2]], 1, PADDING,
                                     y_offset, cursor)
               /\ y_offset' = y_offset + GRID_CELL_SIZE
                                + (IF cursor[2] < Len(grids[cursor[1]]) THEN 0
                                   ELSE word_gap(cursor[1] - 1))
               /\ IF cursor[2] < Len(grids[cursor[1]])
                  THEN pc' = "rows" /\ cursor' = << cursor[1], cursor[2] + 1 >>
                  ELSE IF cursor[1] < Len(grids)
                  THEN pc' = "rows" /\ cursor' = << cursor[1] + 1, 1 >>
                  ELSE pc' = "save" /\ cursor' = cursor
  /\ UNCHANGED << img_width, img_height >>
  /\ UNCHANGED << tileset_data, tile_width, tile_height >>
  /\ UNCHANGED << present, content, tmp_dir, saved >>
  /\ UNCHANGED << config_vars, grid_vars, font_vars >>

\* render_dont_panic, line 500: img.save(output_path); back in the loop of main
SaveVariation ==
  /\ pc = "save"
  /\ saved' = Append(saved, variations)
  /\ pc' = (IF variations < NUM_VARIATIONS THEN "seed" ELSE "done")
  /\ UNCHANGED << present, content, error, tmp_dir, cursor >>
  /\ UNCHANGED << loader_vars, config_vars, grid_vars, render_vars, font_vars >>

\* what the manifest file may hold: the manifests of ChunkPool with 32x32
\* tiles, a manifest without a chunk list, and files that do not load
ManifestFiles ==
  { Json(m) : m \in { m \in Manifests : m.tile_info[1].width = 32
                                          /\ m.tile_info[1].height = 32 } }
  \cup { Json([tile_info |-> << [width |-> 32, height |-> 32] >>]),
         Json([tiles_new |-> << >>]),
         Json([tile_info |-> << >>, tiles_new |-> << >>]),
         Json([tile_info |-> << [width |-> 32] >>, tiles_new |-> << >>]),
         Unreadable, Malformed }

\* the roots main is pointed at: no candidate, the last one only, all of them
Roots ==
  { {}, { CANDIDATES[Len(CANDIDATES)] }, { CANDIDATES[k] : k \in 1..Len(CANDIDATES) } }

\* the process at line 619 of main
MainInit ==
  /\ LoaderIdle
  /\ ConfigAsWritten
  /\ rng \in UnseededStates
  /\ PICK_CACHE = << >>
  /\ seed = 0
  /\ variations = 0
  /\ words = << >>
  /\ grids = << >>
  /\ RenderIdle
  /\ pc = "start"
  /\ present \in Roots
  /\ content \in (IF present = {} THEN { NoFile } ELSE ManifestFiles)
  /\ error = ""
  /\ tmp_dir = FALSE
  /\ saved = << >>
  /\ cursor = << 0, 0 >>
  /\ FontIdle

MainNext ==
  \/ FindTilesetJson
  \/ LoadTileData
  \/ MakeTmpDir
  \/ RenderLegend
  \/ SeedVariation
  \/ BuildGrids(<< "D", "O", "N", "'", "T" >>, << "P", "A", "N", "I", "C" >>)
  \/ RenderRow
  \/ SaveVariation

SpecMain == MainInit /\ [][MainNext]_vars

(***************************************************************************)
(* render_dont_panic on its own: two short words, any letter spacing and   *)
(* thickness, a tileset without chunks (no cell is drawn, every cell is    *)
(* laid out).                                                              *)
(***************************************************************************)
\* the words: "", "D", "DD", ...: an empty word and words of different widths
LayoutWords == SeqsUpTo({ "D" }, MaxTextLen)

LayoutInit ==
  /\ LoaderIdle
  /\ LETTER_SPACING \in Spacings
  /\ LETTER_THICKNESS_HORIZONTAL \in { -1, 0, 1 }
  /\ LETTER_THICKNESS_VERTICAL \in { -1, 0, 1 }
  /\ rng = 0
  /\ PICK_CACHE = << >>
  /\ seed = 0
  /\ variations = 0
  /\ words = << >>
  /\ grids = << >>
  /\ RenderIdle
  /\ pc = "build"
  /\ present = {}
  /\ content = NoFile
  /\ error = ""
  /\ tmp_dir = TRUE
  /\ saved = << >>
  /\ cursor = << 0, 0 >>
  /\ FontIdle

LayoutNext ==
  \/ \E word1 \in LayoutWords, word2 \in LayoutWords : BuildGrids(word1, word2)
  \/ RenderRow
  \/ SaveVariation

SpecLayout == LayoutInit /\ [][LayoutNext]_vars

(***************************************************************************)
(* scripts/gen-unifont.py: generate_mode and verify_mode over the files    *)
(* they read and write.  Characters are abstracted: "A" stands for the     *)
(* printable ASCII range, ExtraChars for what game data may add.           *)
(***************************************************************************)
\* runs of the script and edits of the game data in one behaviour
MaxFontRuns == 4

\* ascii_base_chars, lines 95-97
ascii_base_chars == { "A" }

\* characters of ascii_art pictures and sym/symbol values
ExtraChars == { "x", "y" }

\* _test/all.json: missing, not parseable, or data using some characters
DataFiles == { NoFile, Malformed } \cup { Json(cs) : cs \in SUBSET ExtraChars }

\* get_data_chars, lines 155-173
get_data_chars(file) ==
  IF file.kind = "absent" THEN ascii_base_chars
  ELSE IF file.kind = "malformed" THEN ascii_base_chars
  ELSE ascii_base_chars \cup file.v

\* how a download can go: complete; refused before the cache file is opened;
\* broken after it was opened for writing
Downloads == { "ok", "refused", "broken" }

\* ensure_source_font, lines 67-92: the cache file it leaves and whether it
\* returned or called sys.exit(1)
ensure_source_font(font, download) ==
  IF font # "absent" THEN [font |-> font, exit |-> 0]
  ELSE IF download = "ok" THEN [font |-> "complete", exit |-> 0]
  ELSE IF download = "refused" THEN [font |-> "absent", exit |-> 1]
  ELSE [font |-> "partial", exit |-> 1]

\* run_pyftsubset, lines 187-225: the output font it leaves and whether it
\* returned or called sys.exit(1); a truncated input does not load
run_pyftsubset(font, chars_text, out, subsetting) ==
  IF font = "complete" /\ subsetting = "ok"
  THEN [out |-> [kind |-> "font", chars |-> chars_text], exit |-> 0]
  ELSE [out |-> out, exit |-> 1]

\* generate_mode, lines 253-279: a whole run
Generate(download, subsetting) ==
  /\ font_runs < MaxFontRuns
  /\ \E e \in { ensure_source_font(input_font, download) } :
       /\ input_font' = e.font
       /\ IF e.exit # 0
          THEN /\ exit_code' = e.exit
               /\ UNCHANGED << chars_file, output_font >>
          ELSE \E p \in { run_pyftsubset(e.font, get_data_chars(data_file),
                                         output_font, subsetting) } :
                 /\ chars_file' = [kind |-> "text", chars |-> get_data_chars(data_file)]
                 /\ output_font' = p.out
                 /\ exit_code' = p.exit
  /\ mode' = "generate"
  /\ font_runs' = font_runs + 1
  /\ UNCHANGED data_file
  /\ UNCHANGED << loader_vars, config_vars, grid_vars, render_vars, main_vars >>

\* verify_mode, lines 228-250: a whole run
Verify ==
  /\ font_runs < MaxFontRuns
  /\ exit_code' = (IF chars_file = NoFile THEN 1
                   ELSE IF get_data_chars(data_file) \ chars_file.chars # {} THEN 1
                   ELSE 0)
  /\ mode' = "verify"
  /\ font_runs' = font_runs + 1
  /\ UNCHANGED << data_file, chars_file, input_font, output_font >>
  /\ UNCHANGED << loader_vars, config_vars, grid_vars, render_vars, main_vars >>

\* the game data is replaced between two runs
EditData(file) ==
  /\ font_runs < MaxFontRuns
  /\ file # data_file
  /\ data_file' = file
  /\ font_runs' = font_runs + 1
  /\ UNCHANGED << chars_file, input_font, output_font, mode, exit_code >>
  /\ UNCHANGED << loader_vars, config_vars, grid_vars, render_vars, main_vars >>

\* a checkout in which the script never ran
FontInit ==
  /\ LoaderIdle
  /\ ConfigAsWritten
  /\ GridIdle
  /\ RenderIdle
  /\ MainIdle
  /\ data_file \in DataFiles
  /\ chars_file = NoFile
  /\ input_font = "absent"
  /\ output_font = NoFile
  /\ mode = ""
  /\ exit_code = 0
  /\ font_runs = 0

FontNext ==
  \/ \E download \in Downloads, subsetting \in {"ok", "failed"} :
       Generate(download, subsetting)
  \/ Verify
  \/ \E file \in DataFiles : EditData(file)

SpecFont == FontInit /\ [][FontNext]_vars

Next ==
  \/ \E id \in Ids : FindTile(id)
  \/ \E layer \in {"fg", "bg"} : GetTileImage(layer)

Spec == Init /\ [][Next]_vars

(***************************************************************************)
(* Properties of the grid builder.                                         *)
(***************************************************************************)
\* the grids a process builds for the texts ws, from text k on
RECURSIVE run_grids(_, _, _, _, _)
run_grids(ws, k, state, cache, acc) ==
  IF k > Len(ws) THEN acc
  ELSE LET b == build_grid(ws[k], state, cache)
       IN  run_grids(ws, k + 1, b.rng, b.cache, Append(acc, b.grid))

\* a run of its own: a process that has drawn nothing and cached nothing
\* seeds the generator with x and builds the texts ws
FreshRun(x, ws) == run_grids(ws, 1, random_seed(0, x), << >>, << >>)

\* C6: the grids built since the last random.seed(x) are, cell for cell, the
\* grids of a fresh run that seeds with x and builds the same texts, whatever
\* was drawn, built or cached before that seed call.
C6_SeededGridsDeterministic == seed # 0 => grids = FreshRun(seed, words)

HasInk(grid) ==
  \E r \in 1..Len(grid) : \E c \in 1..Len(grid[r]) : grid[r][c] # NoCell

\* both grids of a variation that is not the first of its process
C6_Witness ==
  /\ seed # 0
  /\ variations >= 2
  /\ Len(grids) = 2
  /\ words[1] # words[2]
  /\ HasInk(grids[1]) /\ HasInk(grids[2])

RECURSIVE SumGlyphColumns(_, _)
SumGlyphColumns(text, k) ==
  IF k > Len(text) THEN 0
  ELSE Len(pattern_of(text[k])[1]) + SumGlyphColumns(text, k + 1)

\* C7: every row of a grid build_grid returns is as long as the glyph column
\* counts of the text's characters after the thickness adjustment, plus
\* LETTER_SPACING columns between consecutive characters and none after the
\* last; "DO" without spacing and thickness gives 7 rows of 10 columns.
C7_GridWidth ==
  \A g \in 1..Len(grids) :
    LET text == words[g]
        grid == grids[g]
        width == SumGlyphColumns(text, 1) + LETTER_SPACING * Max(Len(text) - 1, 0)
    IN  /\ \A r \in 1..Len(grid) : Len(grid[r]) = width
        /\ ( /\ text = << "D", "O" >>
             /\ LETTER_SPACING = 0
             /\ LETTER_THICKNESS_HORIZONTAL = 0
             /\ LETTER_THICKNESS_VERTICAL = 0 )
           => (Len(grid) = 7 /\ \A r \in 1..7 : Len(grid[r]) = 10)

\* two characters, thickened glyphs and a spacer of two columns
C7_Witness ==
  /\ Len(grids) = 1
  /\ Len(words[1]) = 2
  /\ LETTER_SPACING = 2
  /\ LETTER_THICKNESS_HORIZONTAL = 1
  /\ HasInk(grids[1])
  /\ Len(grids[1][1]) = 22

(***************************************************************************)
(* Properties of the loader.                                               *)
(***************************************************************************)
RECURSIVE SumTiles(_, _)
SumTiles(rs, i) == IF i > Len(rs) THEN 0 ELSE rs[i].nx * rs[i].ny + SumTiles(rs, i + 1)

\* the chunks of the loaded manifest
Chunks == tileset_data.tiles_new

\* C1: once find_tile has built it, the range table has one range per chunk,
\* the first range starts at 0, every range starts where the previous one
\* ends, the last ends at the sum of all columns*rows, and every index below
\* that sum lies in exactly one range.
C1_RangesPartition ==
  builds > 0 =>
    LET total == SumTiles(ranges, 1)
    IN  /\ Len(ranges) = Len(Chunks)
        /\ \A i \in 1..Len(ranges) :
             /\ ranges[i].chunk = Chunks[i]
             /\ ranges[i].from = (IF i = 1 THEN 0 ELSE ranges[i - 1].to)
             /\ ranges[i].to = ranges[i].from + ranges[i].nx * ranges[i].ny
        /\ (Len(ranges) > 0 => ranges[Len(ranges)].to = total)
        /\ \A k \in 0..(total - 1) :
             Cardinality({ i \in 1..Len(ranges) :
                             ranges[i].from <= k /\ k < ranges[i].to }) = 1

\* a table of two chunks, one without tiles and one without a file
C1_Witness ==
  /\ builds > 0
  /\ Len(ranges) = 2
  /\ \E i \in 1..2 : ranges[i].from = ranges[i].to
  /\ \E i \in 1..2 : "file" \notin DOMAIN ranges[i].chunk /\ ranges[i].to > ranges[i].from

\* the entries of the manifest, as <<chunk index, entry index>>
Entries ==
  UNION { { << c, e >> : e \in 1..Len(Get(Chunks[c], "tiles", << >>)) } :
            c \in 1..Len(Chunks) }

EntryAt(ce) == Chunks[ce[1]].tiles[ce[2]]

Lists(ce, id) == InSeq(id, tile_ids_of(EntryAt(ce)))

\* id is in the id list of at least one tile entry
Listed(id) == \E ce \in Entries : Lists(ce, id)

Before(a, b) == a[1] < b[1] \/ (a[1] = b[1] /\ a[2] < b[2])

\* the first entry, in manifest order, that lists id
FirstEntry(id) ==
  CHOOSE ce \in Entries : Lists(ce, id) /\ \A o \in Entries : Lists(o, id) => ~Before(o, ce)

\* a position lies in the grid of the chunk that owns tile index k
InOwnGrid(pos, k) ==
  \E i \in 1..Len(ranges) :
    /\ ranges[i].from <= k /\ k < ranges[i].to
    /\ "file" \in DOMAIN ranges[i].chunk
    /\ pos.file = ranges[i].chunk.file
    /\ 0 <= pos.tx /\ pos.tx < ranges[i].nx
    /\ 0 <= pos.ty /\ pos.ty < ranges[i].ny

Layers == {"fg", "bg"}

C3_FindTileNeverRaises ==
  result # NoCall =>
    /\ result.kind # "raise"
    /\ (~Listed(item_id) => result.kind = "None")
    /\ (Listed(item_id) =>
          \A layer \in Layers :
            normalise(EntryAt(FirstEntry(item_id)), layer) = JNone =>
              result.kind = "TileInfo" /\ result[layer] = PosNone)

\* C4: find_tile resolves an id through the first entry, in manifest order,
\* that lists it: what it returns is that entry's fg and bg resolved, also
\* when they are empty and a later entry would resolve.
C4_FirstMatchWins ==
  (result # NoCall /\ Listed(item_id)) =>
    /\ matched = FirstEntry(item_id)
    /\ result = tile_info_of(ranges, EntryAt(FirstEntry(item_id)))

\* the first entry listing the id has an empty fg and a later one resolves
C4_Witness ==
  /\ result.kind = "TileInfo"
  /\ result.fg = PosNone
  /\ \E ce \in Entries :
       /\ Lists(ce, item_id)
       /\ Before(matched, ce)
       /\ tile_info_for_id(ranges, normalise(EntryAt(ce), "fg")).kind = "TilePosition"

\* C5: a find_tile call for the id of the loader's first find_tile call gives
\* what that first call gave, whatever calls were made in between.
C5_SameIdSameResult ==
  (first # NoCall /\ item_id = first.id) => result = first.result

\* the id resolved again after a placeholder entered the cache
C5_Witness ==
  /\ calls >= 3
  /\ builds >= 2
  /\ item_id = first.id
  /\ result.kind = "TileInfo"
  /\ \E f \in DOMAIN image_cache : image_cache[f] = Placeholder

\* every build of the table calls _get_chunk_dimensions once per chunk
DimensionCalls == builds * Len(Chunks)

C10_CacheOnlyGrows ==
  /\ [](\A f \in Files :
          /\ decodes[f] <= 1
          /\ (f \in DOMAIN image_cache) = (decodes[f] = 1)
          /\ (f \in DOMAIN image_cache /\ ~exists(f)) =>
               /\ image_cache[f].kind = "placeholder"
               /\ image_cache[f].width = 32 /\ image_cache[f].height = 32)
  /\ [](tile # NoCall => tile.spritesheet = image_cache[tile.pos.file])
  /\ [][\A f \in DOMAIN image_cache :
          f \in DOMAIN image_cache' /\ image_cache'[f] = image_cache[f]]_vars

\* a tile cropped from the placeholder of a missing file, twice
C10_Witness ==
  /\ tile # NoCall
  /\ ~exists(tile.pos.file)
  /\ tile.spritesheet = Placeholder
  /\ calls - builds >= 2

(***************************************************************************)
(* Properties of the compositing.                                          *)
(***************************************************************************)
\* find_tile gives the id a foreground position
Resolves(id) == has_fg(find_tile(tileset_data, image_cache, id).result)

Drawn(layer) == InSeq(layer, layers)

\* C8: a cell handled without an exception whose item id does not resolve
\* while its terrain id does still gets fill, terrain sprite and border and
\* is pasted; one whose terrain id does not resolve while its item id does
\* gets fill, item sprite and border and is pasted.
C8_OtherLayersStillDrawn ==
  (cell # NoCell /\ result.kind # "raise") =>
    /\ (~Resolves(cell.item_id) /\ Resolves(cell.terrain_id)) =>
         /\ Drawn("fill") /\ Drawn("terrain") /\ Drawn("border") /\ Drawn("paste")
         /\ ~Drawn("item")
    /\ (Resolves(cell.item_id) /\ ~Resolves(cell.terrain_id)) =>
         /\ Drawn("fill") /\ Drawn("item") /\ Drawn("border") /\ Drawn("paste")
         /\ ~Drawn("terrain")

(***************************************************************************)
(* Properties of main.                                                     *)
(***************************************************************************)
\* no manifest under any candidate path, or one that cannot be read or
\* parsed, or one without the tile_info record
NoUsableManifest ==
  \/ find_tileset_json(present, 1) = 0
  \/ content.kind \in {"unreadable", "malformed"}
  \/ content.kind = "json" /\ "tile_info" \notin DOMAIN content.v

\* C11: when no manifest is found under any candidate path, or the manifest
\* cannot be read or has no tile_info record, main never gets past loading:
\* it creates no tmp/, makes no loader call, seeds no variation, builds no
\* grid, handles no cell and saves no image, and it does not end normally.
C11_AbortBeforeAnyOutput ==
  NoUsableManifest =>
    /\ pc \in {"start", "load", "exit"}
    /\ tmp_dir = FALSE
    /\ saved = << >>
    /\ calls = 0
    /\ variations = 0
    /\ grids = << >>
    /\ cells_done = 0

\* main ended by the KeyError of a manifest without tile_info
C11_Witness ==
  /\ pc = "exit"
  /\ error = "KeyError"
  /\ content.kind = "json"
  /\ "tile_info" \notin DOMAIN content.v
  /\ "tiles_new" \in DOMAIN content.v

\* the images of a complete run, in the order main saves them
AllSaved == [k \in 1..(NUM_VARIATIONS + 1) |-> k - 1]

\* C12: main fails only before the first variation is seeded; the images are
\* saved in order, each once (index, then variation 1, 2, ...), and no
\* variation is seeded twice, so nothing is retried; whenever main is between
\* two variations or has ended normally every variation seeded so far is
\* saved, and a run that ends normally has saved them all.
C12_VariationsComplete ==
  /\ [](pc = "exit" => variations = 0)
  /\ [](Len(saved) <= Len(AllSaved) /\ saved = SubSeq(AllSaved, 1, Len(saved)))
  /\ [](pc \in {"seed", "done"} => Len(saved) = variations + 1)
  /\ [](pc \in {"build", "rows", "save"} => Len(saved) = variations)
  /\ [](pc = "done" => saved = AllSaved)
  /\ [][variations' = variations
        \/ (variations' = variations + 1 /\ seed' = variations' * 42)]_vars

\* a complete run in which a sprite file was missing and cells were drawn
\* from a spritesheet and over a placeholder
C12_Witness ==
  /\ pc = "done"
  /\ saved = AllSaved
  /\ \E f \in DOMAIN image_cache : image_cache[f] = Placeholder
  /\ \E f \in DOMAIN image_cache : image_cache[f].kind = "decoded"
  /\ cells_done > 0
  /\ tile # NoCall

(***************************************************************************)
(* Properties of the weighted draw.                                        *)
(***************************************************************************)
\* the cells of the grids built so far
GridCells ==
  UNION { UNION { { grids[g][r][c] : c \in 1..Len(grids[g][r]) } :
                    r \in 1..Len(grids[g]) } :
            g \in 1..Len(grids) } \ { NoCell }

\* the weight the catalog gives id is positive
PositiveWeight(id) == \E k \in 1..Len(ITEMS) : ITEMS[k][1] = id /\ ITEMS[k][2] > 0

\* the weights of the catalog and their sum
Weights == [k \in 1..Len(ITEMS) |-> ITEMS[k][2]]
TotalWeight == sum_weights(Weights, Len(ITEMS))

\* C13: every cell of every grid build_grid returns carries a catalog id of
\* positive weight, whatever state the generator was in; the same holds for a
\* draw that falls exactly on a cumulative weight; and the catalog does hold
\* ids of weight 0, which the legend shows.
C13_ZeroWeightNeverPicked ==
  /\ \A c \in GridCells : PositiveWeight(c.item_id)
  /\ \A w \in 0..(TotalWeight - 1) :
       PositiveWeight(active_items[bisect(Weights, w * RngModulus, 1, 0, Len(ITEMS))])
  /\ \E k \in 1..Len(ITEMS) : ITEMS[k][2] = 0 /\ InSeq(ITEMS[k][1], legend_ids)

\* grids holding the ids on both sides of a run of weight-0 ids, and the last
\* id of the catalog, which follows one
C13_Witness ==
  /\ Len(grids) = 2
  /\ \E c \in GridCells : c.item_id = "mon_fungaloid"
  /\ \E c \in GridCells : c.item_id = "mon_gator"
  /\ \E c \in GridCells : c.item_id = "guidebook"

(***************************************************************************)
(* Properties of the reference shapes.                                     *)
(***************************************************************************)
\* what a reference of one of the three shapes stands for
Expected(ref) ==
  CASE ref.t = "int" -> ref
    [] ref.t = "list" -> (IF ref.v = << >> THEN JNone ELSE ref.v[1])
    [] ref.t = "dict" -> (IF "sprite" \in DOMAIN ref.v THEN ref.v.sprite ELSE JNone)
    [] ref.t = "None" -> JNone

\* C14: for the entry find_tile resolved through, the value looked up in the
\* range table for fg (bg) is the scalar itself, the first element of the
\* list (absent for an empty list) or the sprite of the object (absent
\* without one); it is an integer or absent, and what find_tile returns for
\* the layer is the range lookup of that value.
C14_ReferenceNormalised ==
  (result # NoCall /\ matched # << >>) =>
    \A layer \in Layers :
      LET ref == Get(EntryAt(matched), layer, JNone)
      IN  /\ Expected(ref).t \in {"int", "None"}
          /\ result.kind = "TileInfo" =>
               result[layer] = tile_info_for_id(ranges, Expected(ref))

\* an entry with a list of two indices as fg and a scalar as bg, both
\* resolving, the fg in another chunk than the entry's
C14_Witness ==
  /\ result.kind = "TileInfo"
  /\ matched # << >>
  /\ Get(EntryAt(matched), "fg", JNone).t = "list"
  /\ Len(EntryAt(matched).fg.v) = 2
  /\ result.fg.kind = "TilePosition"
  /\ result.bg.kind = "TilePosition"
  /\ result.fg.file # result.bg.file

(***************************************************************************)
(* Properties of gen-unifont.                                              *)
(***************************************************************************)
\* C15: a verify run ends with exit code 0 only if the tracked character
\* file exists, holds every character the current data requires, and the
\* subset font on disk was made from the tracked characters; without the
\* tracked file, or with a required character missing from it, it ends
\* with 1.
C15_VerifyMeansCovered ==
  mode = "verify" =>
    /\ exit_code = 0 =>
         /\ chars_file # NoFile
         /\ get_data_chars(data_file) \subseteq chars_file.chars
         /\ output_font # NoFile
         /\ output_font.chars = chars_file.chars
    /\ (chars_file = NoFile \/ ~(get_data_chars(data_file) \subseteq chars_file.chars))
         => exit_code = 1

\* C20: the cached source font is either missing or a complete download, and
\* a complete one is never downloaded again or replaced.
C20_CachedFontComplete ==
  /\ [](input_font \in {"absent", "complete"})
  /\ [][input_font = "complete" => input_font' = "complete"]_vars

(***************************************************************************)
(* Properties of the thickness adjustment.                                 *)
(***************************************************************************)
\* the stride the claim names: max(1, floor(1 / (1 + |v|)))
Stride(v) == Max(1, 1 \div (1 + Abs(v)))

\* number of rows kept of n rows when every d-th row is kept, from row 0 on
Kept(n, d) == (n + d - 1) \div d

\* the glyph e is the glyph p with every column 1+h times (h > 0) or as it
\* is (h <= 0), and with the rows 0, d, 2d, ... kept (v < 0), every row 1+v
\* times (v > 0) or the rows as they are (v = 0)
Adjusted(e, p, h, v, d) ==
  LET row_of(j) == IF v < 0 THEN (j - 1) * d + 1
                   ELSE ((j - 1) \div (1 + v)) + 1
      rows == IF v < 0 THEN Kept(Len(p), d) ELSE Len(p) * (1 + Max(v, 0))
      col_of(i) == IF h > 0 THEN ((i - 1) \div (1 + h)) + 1 ELSE i
  IN  /\ Len(e) = rows
      /\ \A j \in 1..rows :
           /\ Len(e[j]) = Len(p[row_of(j)]) * (1 + Max(h, 0))
           /\ \A i \in 1..Len(e[j]) : e[j][i] = p[row_of(j)][col_of(i)]

\* the ink of a grid built for one character is the glyph e
InkIs(grid, e) ==
  \A r \in 1..Len(e) : \A c \in 1..Len(e[r]) :
    (grid[r][c] # NoCell) = (e[r][c] # " ")

\* the grids built for a single character that has a glyph
GlyphGrids == { g \in 1..Len(grids) : Len(words[g]) = 1 /\ words[g][1] \in DOMAIN LETTERS }

\* C16 as stated: a grid built for one character shows its glyph with, for a
\* negative vertical thickness v, the rows 0, s, 2s, ... kept, where
\* s = max(1, floor(1/(1+|v|))); for a positive v every row 1+v times; for a
\* positive horizontal thickness h every column 1+h times.
C16_RowsKeptAtStride ==
  \A g \in GlyphGrids :
    /\ Adjusted(pattern_of(words[g][1]), LETTERS[words[g][1]],
                LETTER_THICKNESS_HORIZONTAL, LETTER_THICKNESS_VERTICAL,
                Stride(LETTER_THICKNESS_VERTICAL))
    /\ InkIs(grids[g], pattern_of(words[g][1]))

\* C16 amended: as above, but for a negative vertical thickness the rows
\* kept are 0, s+1, 2(s+1), ...: every second row, since s is always 1.
C16_EverySecondRowKept ==
  \A g \in GlyphGrids :
    /\ Adjusted(pattern_of(words[g][1]), LETTERS[words[g][1]],
                LETTER_THICKNESS_HORIZONTAL, LETTER_THICKNESS_VERTICAL,
                Stride(LETTER_THICKNESS_VERTICAL) + 1)
    /\ Stride(LETTER_THICKNESS_VERTICAL) = 1
    /\ InkIs(grids[g], pattern_of(words[g][1]))

\* a "D" thinned to four rows and widened to fifteen columns
C16_Witness ==
  /\ Len(grids) = 1
  /\ words[1] = << "D" >>
  /\ LETTER_THICKNESS_VERTICAL = -2
  /\ LETTER_THICKNESS_HORIZONTAL = 2
  /\ Len(pattern_of("D")) = 4
  /\ Len(grids[1][1]) = 15
  /\ HasInk(grids[1])

(***************************************************************************)
(* Properties of the positions find_tile emits.                            *)
(***************************************************************************)
\* the ranges of the table that hold tile index i
Owners(i) == { k \in 1..Len(ranges) : ranges[k].from <= i /\ i < ranges[k].to }

\* the manifest of the example: one chunk of 4 x 4 tiles, "mon_zombie" at 5
ExampleManifest ==
  [tile_info |-> << [width |-> 32, height |-> 32] >>,
   tiles_new |-> << [file |-> "normal_png", nx |-> 4, ny |-> 4,
                     tiles |-> << [id |-> JStr("mon_zombie"), fg |-> JInt(5)] >>] >>]

\* C17: a TilePosition find_tile returns for fg or bg, resolved from index i,
\* belongs to the one range that holds i; it carries that chunk's file, the
\* chunk's sprite size (the global tile size if the chunk gives none) and the
\* chunk's offsets (0 if it gives none); tx = (i - from) mod nx and
\* ty = (i - from) div nx, so from + ty*nx + tx = i.  "mon_zombie" at fg 5 of
\* one 4x4 chunk is at column 1, row 1.
C17_PositionFromIndex ==
  /\ (result # NoCall /\ result.kind = "TileInfo") =>
       \A layer \in Layers :
         result[layer].kind = "TilePosition" =>
           LET i == Expected(Get(EntryAt(matched), layer, JNone)).v
               p == result[layer]
           IN  /\ Cardinality(Owners(i)) = 1
               /\ \A k \in Owners(i) :
                    /\ p.file = ranges[k].chunk.file
                    /\ p.width = Get(ranges[k].chunk, "sprite_width", tile_width)
                    /\ p.height = Get(ranges[k].chunk, "sprite_height", tile_height)
                    /\ p.offx = Get(ranges[k].chunk, "sprite_offset_x", 0)
                    /\ p.offy = Get(ranges[k].chunk, "sprite_offset_y", 0)
                    /\ p.tx = (i - ranges[k].from) % ranges[k].nx
                    /\ p.ty = (i - ranges[k].from) \div ranges[k].nx
                    /\ ranges[k].from + p.ty * ranges[k].nx + p.tx = i
  /\ LET example == find_tile(ExampleManifest, << >>, "mon_zombie").result
     IN  /\ example.kind = "TileInfo"
         /\ example.fg.kind = "TilePosition"
         /\ example.fg.tx = 1 /\ example.fg.ty = 1

\* a position in column 1, row 1 of a chunk that is not the first of the
\* manifest and has a sprite size and offsets of its own
C17_Witness ==
  /\ result.kind = "TileInfo"
  /\ result.fg.kind = "TilePosition"
  /\ result.fg.tx = 1 /\ result.fg.ty = 1
  /\ result.fg.offx = 4 /\ result.fg.offy = 8
  /\ result.fg.width = 24 /\ result.fg.height = 40
  /\ \E k \in Owners(Expected(Get(EntryAt(matched), "fg", JNone)).v) : ranges[k].from > 0

(***************************************************************************)
(* Properties of the order of the compositing steps.                       *)
(***************************************************************************)
\* the place of a step among the steps taken for the last cell, 0 if it was
\* not taken
Place(step) ==
  IF Drawn(step) THEN CHOOSE k \in 1..Len(layers) : layers[k] = step ELSE 0

\* C18: for a cell that is rendered, the steps are: fill first, then the
\* terrain sprite exactly if the terrain resolved, then the item sprite, then
\* the border, then the flip exactly if the cell is flagged, then the
\* rotation, then one paste, which is the last step; no step is taken twice.
C18_StepsInOrder ==
  (cell # NoCell /\ Drawn("paste")) =>
    /\ Place("fill") = 1
    /\ Drawn("terrain") = has_fg(result)
    /\ Drawn("terrain") => (Place("fill") < Place("terrain")
                            /\ Place("terrain") < Place("item"))
    /\ Drawn("item") /\ Place("fill") < Place("item")
    /\ Drawn("border") /\ Place("item") < Place("border")
    /\ Drawn("flip") = cell.flip_h
    /\ Drawn("flip") => (Place("border") < Place("flip")
                         /\ Place("flip") < Place("rotate"))
    /\ Drawn("rotate") /\ Place("border") < Place("rotate")
    /\ Place("paste") = Place("rotate") + 1
    /\ Place("paste") = Len(layers)
    /\ Cardinality({ layers[k] : k \in 1..Len(layers) }) = Len(layers)

\* a flagged cell whose terrain and item both resolved: all seven steps
C18_Witness ==
  /\ cell # NoCell
  /\ cell.flip_h
  /\ Len(layers) = 7
  /\ Drawn("terrain") /\ Drawn("flip") /\ Drawn("paste")

(***************************************************************************)
(* Properties of the chunk dimensions.                                     *)
(***************************************************************************)
\* the chunk declares its grid
Declared(chunk) == "nx" \in DOMAIN chunk /\ "ny" \in DOMAIN chunk

\* the grid of the chunk's image: its pixel size divided by the chunk's
\* sprite size, or by the global tile size where the chunk gives none
FromImage(r) ==
  /\ exists(r.chunk.file)
  /\ r.nx = Disk[r.chunk.file].width \div Get(r.chunk, "sprite_width", tile_width)
  /\ r.ny = Disk[r.chunk.file].height \div Get(r.chunk, "sprite_height", tile_height)

\* the bitmap the loader has for a file: the decoded image, or the
\* placeholder for a file that is not on disk
Bitmap(file) == IF exists(file) THEN ImageOpen(file) ELSE Placeholder

\* C19 as stated: every range of the table has the chunk's declared grid if
\* it declares one, 1 x 1 if the chunk has no file, and otherwise the pixel
\* size of the bitmap of the chunk's file divided by the sprite size.
C19_DimensionsFromImage ==
  builds > 0 =>
    \A k \in 1..Len(ranges) :
      LET r == ranges[k]
      IN  IF Declared(r.chunk) THEN r.nx = r.chunk.nx /\ r.ny = r.chunk.ny
          ELSE IF "file" \notin DOMAIN r.chunk THEN r.nx = 1 /\ r.ny = 1
          ELSE /\ r.nx = Bitmap(r.chunk.file).width
                            \div Get(r.chunk, "sprite_width", tile_width)
               /\ r.ny = Bitmap(r.chunk.file).height
                            \div Get(r.chunk, "sprite_height", tile_height)

\* C19 amended: as above, and a chunk that declares no grid and names a file
\* that is not on disk has 1 x 1.
C19_DimensionsOrPlaceholder ==
  builds > 0 =>
    \A k \in 1..Len(ranges) :
      LET r == ranges[k]
      IN  IF Declared(r.chunk) THEN r.nx = r.chunk.nx /\ r.ny = r.chunk.ny
          ELSE IF "file" \notin DOMAIN r.chunk THEN r.nx = 1 /\ r.ny = 1
          ELSE IF ~exists(r.chunk.file) THEN r.nx = 1 /\ r.ny = 1
          ELSE FromImage(r)

\* a table with a chunk whose file is missing and a chunk whose grid comes
\* from its image and its own sprite size, with global tiles of another size
C19_Witness ==
  /\ builds > 0
  /\ tile_width = 16
  /\ \E k \in 1..Len(ranges) :
       /\ ~Declared(ranges[k].chunk)
       /\ "file" \in DOMAIN ranges[k].chunk
       /\ ~exists(ranges[k].chunk.file)
       /\ ranges[k].nx = 1 /\ ranges[k].ny = 1
  /\ \E k \in 1..Len(ranges) :
       /\ "sprite_width" \in DOMAIN ranges[k].chunk
       /\ FromImage(ranges[k])
       /\ ranges[k].nx = 2 /\ ranges[k].ny = 2

(***************************************************************************)
(* The canvas of render_dont_panic and the nominal boxes of the cells.     *)
(***************************************************************************)
\* the canvas exists and the rows of the two grids are being laid out
LaidOut == pc \in { "rows", "save" } /\ Len(grids) = 2

\* the number of columns of the widest row of the two grids
Widest ==
  LET lens == { Len(grids[g][r]) : g \in { 1 }, r \in 1..Len(grids[1]) }
              \cup { Len(grids[g][r]) : g \in { 2 }, r \in 1..Len(grids[2]) }
  IN  CHOOSE n \in lens : \A o \in lens : o <= n

\* rows above row r of grid g, counted over both grids
RowsAbove(g, r) == (r - 1) + (IF g = 1 THEN 0 ELSE Len(grids[1]))

\* C21: the canvas is Widest * pitch + 2 * margin wide and
\* (rows of both grids) * pitch + word gap + 2 * margin high; the box of the
\* cell in column k (from 1) of a row has its left edge at
\* margin + (k - 1) * pitch whether the cell is empty or not, and its top edge
\* at margin + (rows above) * pitch, plus the word gap in the second grid only;
\* so the left edge lies in [margin, width - margin - pitch] and the top edge
\* in [margin, height - margin - pitch], and after the last row the row offset
\* is height - margin: the gap was added once.
C21_CellsInsideMargins ==
  LaidOut =>
    /\ img_width = Widest * GRID_CELL_SIZE + 2 * PADDING
    /\ img_height = (Len(grids[1]) + Len(grids[2])) * GRID_CELL_SIZE
                      + word_spacing + 2 * PADDING
    /\ \A k \in 1..Len(boxes) :
         /\ Len(boxes) = Len(grids[boxes[k].grid][boxes[k].row])
         /\ boxes[k].ink = (grids[boxes[k].grid][boxes[k].row][k] # NoCell)
         /\ boxes[k].x = PADDING + (k - 1) * GRID_CELL_SIZE
         /\ boxes[k].y = PADDING
                          + RowsAbove(boxes[k].grid, boxes[k].row) * GRID_CELL_SIZE
                          + (IF boxes[k].grid = 1 THEN 0 ELSE word_spacing)
         /\ PADDING <= boxes[k].x
         /\ boxes[k].x <= img_width - PADDING - GRID_CELL_SIZE
         /\ PADDING <= boxes[k].y
         /\ boxes[k].y <= img_height - PADDING - GRID_CELL_SIZE
    /\ (pc = "save") => (y_offset = img_height - PADDING)

\* the last row of the second, wider grid has been laid out: an empty cell
\* comes before a cell with ink, and the last box touches the right and the
\* bottom margin
C21_Witness ==
  /\ pc = "save"
  /\ Len(grids) = 2
  /\ Len(grids[1][1]) > 0
  /\ Len(grids[1][1]) < Len(grids[2][1])
  /\ Len(boxes) > 1
  /\ boxes[1].grid = 2
  /\ \E k \in 1..Len(boxes), j \in 1..Len(boxes) :
       k < j /\ ~boxes[k].ink /\ boxes[j].ink
  /\ boxes[Len(boxes)].x = img_width - PADDING - GRID_CELL_SIZE
  /\ boxes[Len(boxes)].y = img_height - PADDING - GRID_CELL_SIZE

====
